---------------------------- MODULE Spec2Model ----------------------------
(***************************************************************************)
(* Model of new-ui.py: the solar panel tilt and condition optimizer.       *)
(*                                                                         *)
(* classify_image asks an external classifier for a label and normalises   *)
(* its answer to a key of DEFECT_LOSS; compute_best_angle searches the     *)
(* integer angles 0..90 for the one with the highest estimated efficiency. *)
(*                                                                         *)
(* Representation.                                                         *)
(*   - Text is a sequence of one-character strings, so that strip, lower,  *)
(*     title, substring containment and formatting are computed character  *)
(*     by character as Python computes them.                               *)
(*   - None is the empty sequence << >> and a present value v is <<v>>.    *)
(*   - Numbers are fixed point.  A latitude is an integer number of        *)
(*     quarter degrees; target_optimal is in hundredths of a degree        *)
(*     (0.76 * q/4 + 3.1 = (19 q + 310) / 100, exact); an efficiency is in *)
(*     thousandths of a percent (0.4 * |t/100 - a| = 4 |t - 100 a| / 1000, *)
(*     exact); the rounded efficiency of the result is in hundredths.      *)
(*     On these latitudes every comparison and rounding of the code's      *)
(*     binary floating point agrees with the exact arithmetic: two         *)
(*     efficiencies are equal or differ by at least 0.004, and no          *)
(*     efficiency lies halfway between two hundredths.                     *)
(***************************************************************************)
EXTENDS Integers, Sequences, FiniteSets

VARIABLES
    pc,             \* position: idle, entry, classified, search, done, classify_done
    image,          \* argument image: None or <<"img">>
    latitude,       \* argument latitude: None or <<quarter degrees>>
    response,       \* what generate_content did in the last classify_image call
    raised,         \* the classification call of this invocation raised
    calls,          \* generate_content calls made in this invocation
    defect,         \* label returned by classify_image
    defect_loss,    \* DEFECT_LOSS.get(defect, 0)
    target_optimal, \* hundredths of a degree
    best_angle,
    best_eff,       \* thousandths of a percent
    angle,          \* next value of the loop variable of range(0, 91)
    result          \* the triple returned: <<angle text, condition text, efficiency>>

vars == <<pc, image, latitude, response, raised, calls, defect, defect_loss,
          target_optimal, best_angle, best_eff, angle, result>>

---------------------------------------------------------------------------
(* Bounds of the inputs.                                                   *)

\* Whole-degree latitudes run from -NearNegDeg to NearMaxDeg degrees.
NearNegDeg == 8
NearMaxDeg == 45
\* Quarter-degree latitudes cover 0 .. FineLatDeg degrees.
FineLatDeg == 3
\* Far latitudes are the multiples of 15 degrees from -15 FarNeg to 15 FarMax.
FarNeg == 9
FarMax == 17
\* A classifier text carries up to MaxPad blanks before and line ends after it.
MaxPad == 1

None == << >>
Some(v) == <<v>>

Max(a, b) == IF a >= b THEN a ELSE b
Min(a, b) == IF a <= b THEN a ELSE b
Abs(x) == IF x < 0 THEN -x ELSE x

Degrees(d) == 4 * d

Latitudes ==
    {Degrees(d) : d \in (0 - NearNegDeg)..NearMaxDeg}
        \cup (0..Degrees(FineLatDeg))
        \cup {Degrees(15 * k) : k \in (0 - FarNeg)..FarMax}

Images == {Some("img")}

---------------------------------------------------------------------------
(* Text.                                                                   *)

LowerLetters == <<"a","b","c","d","e","f","g","h","i","j","k","l","m",
                  "n","o","p","q","r","s","t","u","v","w","x","y","z">>
UpperLetters == <<"A","B","C","D","E","F","G","H","I","J","K","L","M",
                  "N","O","P","Q","R","S","T","U","V","W","X","Y","Z">>
DigitChars == <<"0","1","2","3","4","5","6","7","8","9">>
Whitespace == {" ", "\t", "\n", "\r"}

IndexIn(c, letters) == CHOOSE i \in 1..Len(letters) : letters[i] = c
IsUpper(c) == \E i \in 1..Len(UpperLetters) : UpperLetters[i] = c
IsLower(c) == \E i \in 1..Len(LowerLetters) : LowerLetters[i] = c
LowerChar(c) == IF IsUpper(c) THEN LowerLetters[IndexIn(c, UpperLetters)] ELSE c
UpperChar(c) == IF IsLower(c) THEN UpperLetters[IndexIn(c, LowerLetters)] ELSE c

\* str.lower()
Lower(s) == [i \in 1..Len(s) |-> LowerChar(s[i])]
\* str.upper()
Upper(s) == [i \in 1..Len(s) |-> UpperChar(s[i])]

\* str.strip(): leading and trailing whitespace removed
Strip(s) ==
    LET keep == {i \in 1..Len(s) : s[i] \notin Whitespace}
    IN  IF keep = {} THEN << >>
        ELSE LET lo == CHOOSE i \in keep : \A j \in keep : i <= j
                 hi == CHOOSE i \in keep : \A j \in keep : i >= j
             IN  SubSeq(s, lo, hi)

\* str.title(): a letter that follows a letter is lower-cased, any other
\* letter is upper-cased
Title(s) ==
    [i \in 1..Len(s) |->
        IF i > 1 /\ (IsUpper(s[i - 1]) \/ IsLower(s[i - 1]))
        THEN LowerChar(s[i]) ELSE UpperChar(s[i])]

\* `key in label`
Contains(label, key) ==
    \E i \in 0..(Len(label) - Len(key)) : SubSeq(label, i + 1, i + Len(key)) = key

RECURSIVE Decimal(_)
\* str(n) of a natural number
Decimal(n) ==
    IF n < 10 THEN <<DigitChars[n + 1]>>
    ELSE Decimal(n \div 10) \o <<DigitChars[(n % 10) + 1]>>

---------------------------------------------------------------------------
(* DEFECT_LOSS                                                             *)

Clean == <<"c","l","e","a","n">>
Dusty == <<"d","u","s","t","y">>
BirdDrop == <<"b","i","r","d"," ","d","r","o","p">>
SnowCovered == <<"s","n","o","w"," ","c","o","v","e","r","e","d">>
ElectricalDamage == <<"e","l","e","c","t","r","i","c","a","l"," ","d","a","m","a","g","e">>
PhysicalDamage == <<"p","h","y","s","i","c","a","l"," ","d","a","m","a","g","e">>

\* variant: the table is written in the order of the prompt's options
DefectKeysPromptOrder ==
    <<Clean, Dusty, BirdDrop, SnowCovered, PhysicalDamage, ElectricalDamage>>

\* DEFECT_LOSS.keys(), in insertion order
DefectKeys == <<Clean, Dusty, BirdDrop, SnowCovered, ElectricalDamage, PhysicalDamage>>
\* DEFECT_LOSS.values(), in the same order
DefectLosses == <<0, 20, 30, 40, 50, 60>>

KeySet == {DefectKeys[i] : i \in 1..Len(DefectKeys)}

\* DEFECT_LOSS.get(defect, 0)
DefectLossGet(d) ==
    IF d \in KeySet
    THEN DefectLosses[CHOOSE i \in 1..Len(DefectKeys) : DefectKeys[i] = d]
    ELSE 0

---------------------------------------------------------------------------
(* The classifier's answers.                                               *)

Phrases ==
    { << >>,
      Clean, Dusty, BirdDrop, SnowCovered, ElectricalDamage, PhysicalDamage,
      <<"D","u","s","t","y"," ","P","a","n","e","l">>,
      <<"d","u","s","t","y"," ","a","n","d"," ","c","l","e","a","n">>,
      <<"p","h","y","s","i","c","a","l"," ","d","a","m","a","g","e",","," ",
        "e","l","e","c","t","r","i","c","a","l"," ","d","a","m","a","g","e">>,
      <<"b","i","r","d","d","r","o","p">>,
      <<"b","i","r","d">>,
      <<"s","n","o","w"," "," ","c","o","v","e","r","e","d">>,
      <<"u","n","k","n","o","w","n">>,
      <<"t","h","e"," ","p","a","n","e","l"," ","i","s"," ","c","l","e","a","n",".">> }

Repeat(c, n) == [i \in 1..n |-> c]

Texts ==
    { Repeat(" ", l) \o p \o Repeat("\n", r) :
        l \in 0..MaxPad, r \in 0..MaxPad, p \in Phrases \cup {Upper(q) : q \in Phrases} }

\* generate_content returns a response whose text is a string or None, or raises
Responses ==
    [kind : {"text"}, text : Texts]
        \cup {[kind |-> "none", text |-> << >>], [kind |-> "raise", text |-> << >>]}

NoResponse == [kind |-> "nocall", text |-> << >>]

---------------------------------------------------------------------------
(* classify_image                                                          *)

\* label = response.text.strip().lower()
NormalizeLabel(text) == Lower(Strip(text))

RECURSIVE FirstMatchPropagate(_, _)
\* variant: the classifier's label is returned when no key matches
FirstMatchPropagate(label, i) ==
    IF i > Len(DefectKeys) THEN label
    ELSE IF Contains(label, DefectKeys[i]) THEN DefectKeys[i]
    ELSE FirstMatchPropagate(label, i + 1)

RECURSIVE FirstMatch(_, _)
\* for possible_defect in DEFECT_LOSS.keys(): if possible_defect in label: return it
\* and `return "clean"` after the loop
FirstMatch(label, i) ==
    IF i > Len(DefectKeys) THEN Clean
    ELSE IF Contains(label, DefectKeys[i]) THEN DefectKeys[i]
    ELSE FirstMatch(label, i + 1)

\* variant: the except branch returns a label of its own
OnClassifierErrorUnknown == <<"e","r","r","o","r">>

\* label returned by the except branch
OnClassifierError == Clean

\* label returned for a response with no text
OnEmptyResponse == Clean

\* label returned when image is None
OnNoImage == Clean

\* `not response.text`
TextIsFalsy(resp) == resp.kind = "none" \/ resp.text = << >>

\* the label classify_image(img) returns when generate_content does resp
ClassifyLabel(img, resp) ==
    IF img = None THEN OnNoImage
    ELSE IF resp.kind = "raise" THEN OnClassifierError
    ELSE IF TextIsFalsy(resp) THEN OnEmptyResponse
    ELSE FirstMatch(NormalizeLabel(resp.text), 1)

\* variant: a failed or empty answer is asked for once more
ClassifierCallsRetry(img, resp) ==
    IF img = None THEN 0
    ELSE IF resp.kind = "raise" \/ TextIsFalsy(resp) THEN 2 ELSE 1

\* the number of generate_content calls classify_image(img) makes
ClassifierCalls(img, resp) == IF img = None THEN 0 ELSE 1

---------------------------------------------------------------------------
(* compute_best_angle                                                      *)

base_loss == 2
TargetSlope == 76
TargetOffset == 310
DeviationFactor == 4
EfficiencyCap == 99
InitialBestEff == 0 - 1
LastAngle == 90

\* variant: the inputs are tested for truth (`not image or not latitude`)
InputsAbsentFalsy(img, lat) == img = None \/ lat = None \/ lat = Some(0)

\* image is None or latitude is None
InputsAbsent(img, lat) == img = None \/ lat = None

NoInputText == <<"N","o"," ","i","n","p","u","t">>
NotAvailableText == <<"N","/","A">>
Sentinel == <<NoInputText, NotAvailableText, 0>>

\* target_optimal = (latitude * 0.76) + 3.1, in hundredths of a degree
TargetOptimal(lat) == (lat * TargetSlope) \div 4 + TargetOffset

\* angle_deviation_loss = 0.4 * abs(target_optimal - angle), in thousandths
AngleDeviationLoss(target, a) == DeviationFactor * Abs(target - 100 * a)

\* variant: only the cap is applied (`min(99.0, efficiency)`)
ClampNoFloor(e) == Min(99000, e)

\* max(0, min(99.0, efficiency))
Clamp(e) == Max(0, Min(EfficiencyCap * 1000, e))

\* efficiency of one candidate angle, in thousandths
Efficiency(target, loss, a) ==
    Clamp((100 - base_loss) * 1000 - loss * 1000 - AngleDeviationLoss(target, a))

\* variant: the comparison is not strict (`>=`)
ImprovesOrEqual(efficiency, best) == efficiency >= best

\* if efficiency > best_eff
Improves(efficiency, best) == efficiency > best

\* variant: the loop stops one angle early (`range(0, 90)`)
AnglesShort == 0..89

\* range(0, 91)
Angles == 0..LastAngle

\* variant: the efficiency is cut to two decimals instead of rounded
Round2Truncate(e) == e \div 10

\* round(best_eff, 2), in hundredths: to the nearest, a half to the even one
Round2(e) ==
    LET q == e \div 10
        r == e % 10
    IN  IF r < 5 THEN q
        ELSE IF r > 5 THEN q + 1
        ELSE IF q % 2 = 0 THEN q ELSE q + 1

\* f"{best_angle}°"
AngleText(a) == Decimal(a) \o <<"°">>

\* the triple of the return statement
ResultTriple(a, d, e) == <<AngleText(a), Title(d), Round2(e)>>

---------------------------------------------------------------------------
(* The state machine.                                                      *)

Unset == << >>

Blank ==
    /\ response' = NoResponse
    /\ raised' = FALSE
    /\ calls' = 0
    /\ defect' = Unset
    /\ defect_loss' = 0
    /\ target_optimal' = 0
    /\ best_angle' = 0
    /\ best_eff' = 0
    /\ angle' = 0
    /\ result' = Unset

Init ==
    /\ pc = "idle"
    /\ image = None
    /\ latitude = None
    /\ response = NoResponse
    /\ raised = FALSE
    /\ calls = 0
    /\ defect = Unset
    /\ defect_loss = 0
    /\ target_optimal = 0
    /\ best_angle = 0
    /\ best_eff = 0
    /\ angle = 0
    /\ result = Unset

\* submit_btn.click: compute_best_angle(image, latitude) is entered
Click(img, lat) ==
    /\ pc = "idle"
    /\ pc' = "entry"
    /\ image' = img
    /\ latitude' = lat
    /\ Blank

\* if image is None or latitude is None: return "No input", "N/A", 0
ReturnNoInput ==
    /\ pc = "entry"
    /\ InputsAbsent(image, latitude)
    /\ result' = Sentinel
    /\ pc' = "done"
    /\ UNCHANGED <<image, latitude, response, raised, calls, defect, defect_loss,
                   target_optimal, best_angle, best_eff, angle>>

\* defect = classify_image(image)
Classify(resp) ==
    /\ pc = "entry"
    /\ ~InputsAbsent(image, latitude)
    /\ response' = resp
    /\ raised' = (resp.kind = "raise")
    /\ calls' = calls + ClassifierCalls(image, resp)
    /\ defect' = ClassifyLabel(image, resp)
    /\ pc' = "classified"
    /\ UNCHANGED <<image, latitude, defect_loss, target_optimal, best_angle,
                   best_eff, angle, result>>

\* defect_loss, best_angle, best_eff, target_optimal are set; classify_image's
\* local response is gone
InitSearch ==
    /\ pc = "classified"
    /\ defect_loss' = DefectLossGet(defect)
    /\ best_angle' = 0
    /\ best_eff' = InitialBestEff * 1000
    /\ target_optimal' = TargetOptimal(latitude[1])
    /\ angle' = 0
    /\ response' = NoResponse
    /\ pc' = "search"
    /\ UNCHANGED <<image, latitude, raised, calls, defect, result>>

\* one iteration of `for angle in range(0, 91)`
SearchStep ==
    /\ pc = "search"
    /\ angle \in Angles
    /\ LET efficiency == Efficiency(target_optimal, defect_loss, angle)
       IN  IF Improves(efficiency, best_eff)
           THEN best_eff' = efficiency /\ best_angle' = angle
           ELSE UNCHANGED <<best_eff, best_angle>>
    /\ angle' = angle + 1
    /\ UNCHANGED <<pc, image, latitude, response, raised, calls, defect,
                   defect_loss, target_optimal, result>>

\* return f"{best_angle}°", defect.title(), round(best_eff, 2)
Return ==
    /\ pc = "search"
    /\ angle \notin Angles
    /\ result' = ResultTriple(best_angle, defect, best_eff)
    /\ pc' = "done"
    /\ UNCHANGED <<image, latitude, response, raised, calls, defect, defect_loss,
                   target_optimal, best_angle, best_eff, angle>>

\* the call has returned: its frame is discarded and the program waits for the
\* next call
Finish ==
    /\ pc \in {"done", "classify_done"}
    /\ pc' = "idle"
    /\ image' = None
    /\ latitude' = None
    /\ Blank

\* classify_image(img) called on its own
ClassifyOnly(img, resp) ==
    /\ pc = "idle"
    /\ image' = img
    /\ latitude' = None
    /\ response' = IF img = None THEN NoResponse ELSE resp
    /\ raised' = (img # None /\ resp.kind = "raise")
    /\ calls' = ClassifierCalls(img, resp)
    /\ defect' = ClassifyLabel(img, resp)
    /\ pc' = "classify_done"
    /\ UNCHANGED <<defect_loss, target_optimal, best_angle, best_eff, angle>>
    /\ result' = Unset

Next ==
    \/ \E img \in Images \cup {None}, lat \in {Some(q) : q \in Latitudes} \cup {None} :
          Click(img, lat)
    \/ ReturnNoInput
    \/ \E resp \in Responses : Classify(resp)
    \/ InitSearch
    \/ SearchStep
    \/ Return
    \/ \E img \in Images \cup {None}, resp \in Responses : ClassifyOnly(img, resp)
    \/ Finish

Spec == Init /\ [][Next]_vars

TypeOK ==
    /\ pc \in {"idle", "entry", "classified", "search", "done", "classify_done"}
    /\ calls \in 0..1
    /\ angle \in 0..(LastAngle + 1)
    /\ best_angle \in Angles

---------------------------------------------------------------------------
(* Vocabulary of the properties below, written out independently of the    *)
(* definitions above.                                                      *)

Present == image # None /\ latitude # None
Absent == image = None \/ latitude = None
Returned == pc = "done"
Lat == latitude[1]

Vocabulary == <<Clean, Dusty, BirdDrop, SnowCovered, ElectricalDamage, PhysicalDamage>>
VocabularySet == {Vocabulary[i] : i \in 1..6}
VocabularyLoss == <<0, 20, 30, 40, 50, 60>>
VocabularyTitle ==
    << <<"C","l","e","a","n">>,
       <<"D","u","s","t","y">>,
       <<"B","i","r","d"," ","D","r","o","p">>,
       <<"S","n","o","w"," ","C","o","v","e","r","e","d">>,
       <<"E","l","e","c","t","r","i","c","a","l"," ","D","a","m","a","g","e">>,
       <<"P","h","y","s","i","c","a","l"," ","D","a","m","a","g","e">> >>

DustyPanelText == <<"D","u","s","t","y"," ","P","a","n","e","l">>

\* target = 0.76 * latitude + 3.1, in hundredths of a degree
TargetOf(q) == 19 * q + 310

\* 98 - loss - 0.4 * |target - a| clamped to [0, 99], in thousandths
ClampedEfficiency(q, loss, a) ==
    LET raw == 98000 - 1000 * loss - 4 * Abs(TargetOf(q) - 100 * a)
    IN  IF raw < 0 THEN 0 ELSE IF raw > 99000 THEN 99000 ELSE raw

\* h hundredths is e thousandths rounded to two decimals
RoundsTo(e, h) == Abs(10 * h - e) <= 5

\* the text of angle b with its degree suffix
Shown(b) == Decimal(b) \o <<"°">>

\* the lowest of the angles 0..90 of highest efficiency
LowestBest(q, loss) ==
    CHOOSE a \in 0..90 :
        \A b \in 0..90 :
            /\ ClampedEfficiency(q, loss, a) >= ClampedEfficiency(q, loss, b)
            /\ ClampedEfficiency(q, loss, a) = ClampedEfficiency(q, loss, b) => a <= b

\* the text the keys are looked up in
Trimmed(resp) == Lower(Strip(resp.text))

\* the call can go on to its return
CanProceed == ENABLED (InitSearch \/ SearchStep \/ Return)

---------------------------------------------------------------------------
(* The claims.                                                             *)

\* C1: compute_best_angle returns the sentinel ("No input", "N/A", 0) whenever
\* the image or the latitude is absent, and a present image with a present
\* latitude (latitude 0 included) never yields the sentinel's angle text or
\* condition text.
C1_SentinelIffAbsent ==
    Returned =>
        /\ Absent => result = <<NoInputText, NotAvailableText, 0>>
        /\ Present => result[1] # NoInputText /\ result[2] # NotAvailableText

C1_Witness ==
    /\ Returned
    /\ image # None
    /\ latitude = Some(0)
    /\ result[1] = Shown(3)

\* C2: the angle returned has an efficiency at least that of every integer
\* angle in 0..90 and is the smallest angle reaching that maximum; latitude 15
\* (target 14.5) returns 14.
C2_LowestMaximum ==
    (Returned /\ Present) =>
        \E i \in 1..6 : \E a \in 0..90 :
            /\ defect = Vocabulary[i]
            /\ result[1] = Shown(a)
            /\ \A b \in 0..90 :
                 /\ ClampedEfficiency(Lat, VocabularyLoss[i], a)
                        >= ClampedEfficiency(Lat, VocabularyLoss[i], b)
                 /\ ClampedEfficiency(Lat, VocabularyLoss[i], a)
                        = ClampedEfficiency(Lat, VocabularyLoss[i], b) => a <= b
            /\ Lat = Degrees(15) => a = 14

C2_Witness ==
    /\ Returned
    /\ latitude = Some(Degrees(15))
    /\ result[1] = Shown(14)
    /\ ClampedEfficiency(Lat, 0, 14) = ClampedEfficiency(Lat, 0, 15)

\* C3: the recommended angle returned by compute_best_angle is different from
\* the input latitude, for every input latitude.
C3_AngleDiffersFromLatitude ==
    (Returned /\ Present) =>
        \A a \in 0..90 : result[1] = Shown(a) => Degrees(a) # Lat

\* C4: classify_image returns a key of DEFECT_LOSS on every path, 'clean'
\* whenever no key is contained in the response (any text, empty text, no text,
\* an error, an absent image), and no value outside the vocabulary reaches the
\* loss lookup or the displayed condition.
C4_LabelInVocabulary ==
    /\ pc \in {"classified", "classify_done", "search"} => defect \in VocabularySet
    /\ pc \in {"classified", "classify_done"} =>
         \/ defect = Clean
         \/ /\ response.kind = "text"
            /\ \E i \in 1..6 : Contains(Trimmed(response), Vocabulary[i])
    /\ pc = "search" =>
         \E i \in 1..6 : defect = Vocabulary[i] /\ defect_loss = VocabularyLoss[i]
    /\ (Returned /\ Present) =>
         \E i \in 1..6 : defect = Vocabulary[i] /\ result[2] = VocabularyTitle[i]

C4_Witness ==
    /\ pc = "classified"
    /\ response.kind = "text"
    /\ Len(Trimmed(response)) > 0
    /\ \A i \in 1..6 : ~Contains(Trimmed(response), Vocabulary[i])
    /\ defect = Clean

\* C5: when the classification call raises, compute_best_angle does not stop:
\* the search runs and the triple returned is the one returned for the same
\* latitude when the classifier answers 'clean' (condition "Clean", loss 0).
C5_RaiseDegradesToClean ==
    raised =>
        /\ pc \in {"classified", "search"} => CanProceed
        /\ Returned =>
             result = <<Shown(LowestBest(Lat, 0)),
                        VocabularyTitle[1],
                        Round2(ClampedEfficiency(Lat, 0, LowestBest(Lat, 0)))>>

C5_Witness ==
    /\ Returned
    /\ raised
    /\ latitude = Some(Degrees(28))
    /\ result = <<Shown(24), VocabularyTitle[1], 9785>>

\* C6: for a non-empty response the label is the first key, in the order clean,
\* dusty, bird drop, snow covered, electrical damage, physical damage, that is
\* a substring of the trimmed, lower-cased response; "Dusty Panel" gives
\* 'dusty' with loss 20.
C6_FirstKeyInTableOrder ==
    (pc \in {"classified", "classify_done"} /\ response.kind = "text"
        /\ response.text # << >>) =>
        /\ \A i \in 1..6 :
             (/\ Contains(Trimmed(response), Vocabulary[i])
              /\ \A j \in 1..(i - 1) : ~Contains(Trimmed(response), Vocabulary[j]))
                 => defect = Vocabulary[i]
        /\ response.text = DustyPanelText =>
             defect = Dusty /\ DefectLossGet(defect) = 20

C6_Witness ==
    /\ pc = "classified"
    /\ response.kind = "text"
    /\ Contains(Trimmed(response), PhysicalDamage)
    /\ Contains(Trimmed(response), ElectricalDamage)
    /\ defect = ElectricalDamage

\* C7: for every present latitude, highly negative and above 90 included, and
\* every label, compute_best_angle returns an integer angle in [0, 90] and an
\* efficiency in [0, 99]; the placeholder best_eff = -1 is never returned.
C7_ResultInRange ==
    /\ (Present /\ pc \in {"classified", "search"}) => CanProceed
    /\ (Returned /\ Present) =>
         /\ \E a \in 0..90 : result[1] = Shown(a)
         /\ result[3] >= 0
         /\ result[3] <= 9900
         /\ best_eff # 0 - 1000

C7_Witness ==
    /\ Returned
    /\ latitude = Some(Degrees(0 - 135))
    /\ defect = PhysicalDamage
    /\ result = <<Shown(0), VocabularyTitle[6], 0>>

\* C8: the efficiency reported equals 98 - loss[c] - 0.4 |0.76 L + 3.1 - angle|
\* clamped to [0, 99] and rounded to 2 decimals, the condition is in title case
\* and the angle has a degree suffix; latitude 0 with 'clean' gives
\* ("3°", "Clean", 97.96), latitude 28 with 'bird drop' ("24°", "Bird Drop", 67.85).
C8_ReportedEfficiency ==
    (Returned /\ Present) =>
        /\ \E i \in 1..6 : \E a \in 0..90 :
             /\ defect = Vocabulary[i]
             /\ result[1] = Shown(a)
             /\ result[2] = VocabularyTitle[i]
             /\ RoundsTo(ClampedEfficiency(Lat, VocabularyLoss[i], a), result[3])
        /\ (Lat = 0 /\ defect = Clean) =>
             result = <<Shown(3), VocabularyTitle[1], 9796>>
        /\ (Lat = Degrees(28) /\ defect = BirdDrop) =>
             result = <<Shown(24), VocabularyTitle[3], 6785>>

C8_Witness ==
    /\ Returned
    /\ latitude = Some(Degrees(28))
    /\ defect = BirdDrop
    /\ result = <<Shown(24), VocabularyTitle[3], 6785>>

\* C9: in every invocation of compute_best_angle the classifier is called at
\* most once: exactly once, before the first step of the search, when image
\* and latitude are present, with no second call after a failed or empty
\* answer; and never when an input is absent, where the loop is not entered.
C9_ClassifierCalledOnce ==
    /\ calls <= 1
    /\ pc = "entry" => calls = 0 /\ angle = 0
    /\ pc \in {"classified", "search"} => Present /\ calls = 1
    /\ pc = "classified" => angle = 0
    /\ (Returned /\ Present) => calls = 1 /\ angle = 91
    /\ (Returned /\ Absent) => calls = 0 /\ angle = 0

C9_Witness ==
    /\ Returned
    /\ raised
    /\ calls = 1
    /\ angle = 91

\* C10: whenever the efficiency returned is greater than 0, the angle returned
\* is the integer in [0, 90] nearest to target = 0.76 latitude + 3.1 (0 below
\* 0, 90 above 90, the lower angle on an exact half); whenever every
\* candidate's efficiency is clamped to 0, the angle is 0 with efficiency 0,
\* also when the target lies above 90.
C10_NearestOrZero ==
    (Returned /\ Present) =>
        \E i \in 1..6 :
            LET t == TargetOf(Lat)
                away == IF t < 0 THEN 0 - t ELSE IF t > 9000 THEN t - 9000 ELSE 0
            IN  /\ defect = Vocabulary[i]
                /\ result[3] > 0 =>
                     \E a \in 0..90 :
                         /\ result[1] = Shown(a)
                         /\ t < 0 => a = 0
                         /\ t > 9000 => a = 90
                         /\ (t >= 0 /\ t <= 9000) =>
                              (t - 100 * a > 0 - 50 /\ t - 100 * a <= 50)
                /\ 98000 - 1000 * VocabularyLoss[i] - 4 * away <= 0 =>
                     result[1] = Shown(0) /\ result[3] = 0

C10_Witness ==
    /\ Returned
    /\ latitude = Some(Degrees(240))
    /\ defect = PhysicalDamage
    /\ result = <<Shown(0), VocabularyTitle[6], 0>>

=============================================================================
